---- MODULE Spec2Model ----
(***************************************************************************)
(* Model of src/src/lib.rs: the monkey_business simulation (parser,        *)
(* round loop, routing, aggregation).                                      *)
(*                                                                         *)
(* Indices: Rust vectors are 0-based, TLA+ sequences 1-based.  Monkey      *)
(* indices (i, true_monkey_index, to_monkey ...) keep their 0-based Rust   *)
(* values; monkey k is monkeys[k + 1], lines[k] of a block is block[k+1].  *)
(*                                                                         *)
(* Numbers: Item = usize (64 bit).  Every item, literal and divisor of     *)
(* the inputs explored here is far below 2^31, so no usize operation of    *)
(* the program overflows on them (operands < 2^31 give results < 2^62).    *)
(* TLC's own integers have 32 bits, so the two places where the program's  *)
(* 64-bit intermediate exceeds 2^31 are evaluated without forming it:      *)
(* (a * b) % modulo by MulMod, the final product as base-LimbBase limbs.   *)
(***************************************************************************)
EXTENDS Integers, Sequences, FiniteSets, TLC

VARIABLES
    input,        \* the blocks of the input text, input.split("\n\n")
    n_rounds,     \* argument n_rounds
    pos,          \* number of blocks consumed by the parsing iterator
    monkeys,      \* Vec<Monkey>
    modulo,       \* let modulo
    round,        \* completed iterations of `for _ in 0..n_rounds`
    i,            \* loop variable of `for i in 0..monkeys.len()`
    pc,           \* constructing / simulating / finished / panicked
    thrown,       \* the last ThrownItem returned by inspect_next
    result,       \* the returned usize, as limbs (NoResult until returned)
    hist,         \* history of the last inspection: who, which item
    ref,          \* reference run of the same input on unbounded integers
    refOK,        \* the reference run is still tracked (values below RefCap)
    log,          \* history of one round: queue lengths at its start, its throws
    fifo          \* the same run with inspect_next removing the oldest item

vars == <<input, n_rounds, pos, monkeys, modulo, round, i, pc, thrown,
          result, hist, ref, refOK, log, fifo>>

----
\* Bounds of the exploration

MaxBlocks == 3
MaxRounds == 2
RefCap == 40000

----
\* Tokens and lines of the input text

Num(n) == [k |-> "num", n |-> n]
Old == [k |-> "old", n |-> 0]
Star == [k |-> "*", n |-> 0]
Cross == [k |-> "+", n |-> 0]
Junk == [k |-> "?", n |-> 0]

Line(label, args) == [label |-> label, args |-> args]

\* A six-line block in the fixed format
Block(hdr, items, e1, op, e2, d, t, f) ==
    << Line("Monkey", <<Num(hdr)>>),
       Line("Starting items", items),
       Line("Operation", <<e1, op, e2>>),
       Line("Test", <<Num(d)>>),
       Line("If true", <<Num(t)>>),
       Line("If false", <<Num(f)>>) >>

----
\* enum Op, impl Op

OpOn(op, item1, item2) ==
    IF op = "Times" THEN item1 * item2 ELSE item1 + item2

\* the two operator tokens exchanged
MutOpFromStr(tok) == IF tok.k = "*" THEN "Plus" ELSE "Times"

OpFromStr(tok) == IF tok.k = "*" THEN "Times" ELSE "Plus"

\* the placeholder resolved to the literal field instead of the current value
MutExprOr(e, old) == e.n

\* enum Expr, impl Expr
ExprOr(e, old) == IF e.k = "num" THEN e.n ELSE old

\* (a * b) % m for a < m, by doubling, so that no intermediate exceeds 3 * m
RECURSIVE MulMod(_, _, _)
MulMod(a, b, m) ==
    IF b = 0 THEN 0
    ELSE LET h == MulMod(a, b \div 2, m)
         IN  (2 * h + (b % 2) * a) % m

\* the sum left unreduced
MutReducedOn(op, item1, item2, m) ==
    IF op = "Times" THEN MulMod(item1 % m, item2, m)
    ELSE item1 + item2

\* (self.operation)(old) % modulo, line 114, for modulo > 0
ReducedOn(op, item1, item2, m) ==
    IF op = "Times" THEN MulMod(item1 % m, item2, m)
    ELSE (item1 + item2) % m

----
\* Monkey::new

IsNum(tok) == tok.k = "num"
IsExpr(tok) == tok.k \in {"num", "old"}
\* an unrecognised operator token accepted (and read as Plus by OpFromStr)
MutIsOp(tok) == TRUE
IsOp(tok) == tok.k \in {"*", "+"}

\* sscanf!(lines[k], "<label> {usize}") succeeds
ScanUsize(line, label) ==
    /\ line.label = label
    /\ Len(line.args) = 1
    /\ IsNum(line.args[1])

\* every sscanf, index and unwrap of Monkey::new succeeds
NewOk(lines) ==
    /\ Len(lines) >= 6
    /\ lines[2].label = "Starting items"
    /\ Len(lines[2].args) >= 1
    /\ lines[3].label = "Operation"
    /\ Len(lines[3].args) = 3
    /\ IsExpr(lines[3].args[1])
    /\ IsOp(lines[3].args[2])
    /\ IsExpr(lines[3].args[3])
    /\ ScanUsize(lines[4], "Test")
    /\ ScanUsize(lines[5], "If true")
    /\ ScanUsize(lines[6], "If false")
    /\ \A k \in 1..Len(lines[2].args) : IsNum(lines[2].args[k])

MonkeyNew(lines) ==
    [ items |-> [k \in 1..Len(lines[2].args) |-> lines[2].args[k].n],
      expr1 |-> lines[3].args[1],
      op |-> OpFromStr(lines[3].args[2]),
      expr2 |-> lines[3].args[3],
      test_mod |-> lines[4].args[1].n,
      num_inspections |-> 0,
      true_monkey_index |-> lines[5].args[1].n,
      false_monkey_index |-> lines[6].args[1].n ]

----
\* The usize returned by monkey_business, as little-endian limbs

LimbBase == 100 * 100
NoResult == << >>

RECURSIVE Limbs(_)
Limbs(n) ==
    IF n < LimbBase THEN <<n>>
    ELSE <<n % LimbBase>> \o Limbs(n \div LimbBase)

\* coefficient k (0-based) of the product of two limb sequences
RECURSIVE Coeff(_, _, _, _)
Coeff(x, y, k, a) ==
    IF a > Len(x) THEN 0
    ELSE (IF k + 2 - a >= 1 /\ k + 2 - a <= Len(y)
          THEN x[a] * y[k + 2 - a] ELSE 0) + Coeff(x, y, k, a + 1)

RECURSIVE Carry(_, _)
Carry(cs, c) ==
    IF cs = << >> THEN (IF c = 0 THEN << >> ELSE Limbs(c))
    ELSE <<(Head(cs) + c) % LimbBase>>
         \o Carry(Tail(cs), (Head(cs) + c) \div LimbBase)

RECURSIVE Strip(_)
Strip(x) ==
    IF Len(x) > 1 /\ x[Len(x)] = 0 THEN Strip(SubSeq(x, 1, Len(x) - 1))
    ELSE x

\* a * b over usize values
MulLimbs(a, b) ==
    LET x == Limbs(a)
        y == Limbs(b)
    IN  Strip(Carry([k \in 1..(Len(x) + Len(y) - 1) |-> Coeff(x, y, k - 1, 1)], 0))

----
\* Aggregation, lines 196-199

RECURSIVE Insert(_, _)
Insert(s, x) ==
    IF s = << >> THEN <<x>>
    ELSE IF x <= Head(s) THEN <<x>> \o s
    ELSE <<Head(s)>> \o Insert(Tail(s), x)

\* inspections.sort(): ascending
RECURSIVE Sort(_)
Sort(s) == IF s = << >> THEN << >> ELSE Insert(Sort(Tail(s)), Head(s))

\* the reversal forgotten: the slice takes the two smallest counts
MutReverse(s) == s

\* inspections.reverse()
Reverse(s) == [k \in 1..Len(s) |-> s[Len(s) + 1 - k]]

Inspections(ms) == [k \in 1..Len(ms) |-> ms[k].num_inspections]

\* take(2) instead of the slice: the product of what is there
MutTopTwo(sorted) ==
    [ ok |-> TRUE,
      val |-> IF Len(sorted) >= 2 THEN MulLimbs(sorted[1], sorted[2])
              ELSE IF Len(sorted) = 1 THEN Limbs(sorted[1])
              ELSE Limbs(1) ]

\* inspections[0..=1].iter().product(): the slice panics (ok = FALSE) on
\* fewer than two elements
TopTwo(sorted) ==
    [ ok |-> Len(sorted) >= 2,
      val |-> IF Len(sorted) >= 2 THEN MulLimbs(sorted[1], sorted[2])
              ELSE NoResult ]

Business(ms) == TopTwo(Reverse(Sort(Inspections(ms))))

\* monkeys.iter().map(|m| m.test_mod).product()
RECURSIVE Product(_)
Product(s) == IF s = << >> THEN 1 ELSE Head(s) * Product(Tail(s))

\* sum() instead of product()
RECURSIVE Sum(_)
Sum(s) == IF s = << >> THEN 0 ELSE Head(s) + Sum(Tail(s))

MutModulo(ms) == Sum([k \in 1..Len(ms) |-> ms[k].test_mod])

Modulo(ms) == Product([k \in 1..Len(ms) |-> ms[k].test_mod])

----
\* Inputs

\* the four-monkey example of the doctest, lines 139-167
ExampleInput ==
    << Block(0, <<Num(79), Num(98)>>, Old, Star, Num(19), 23, 2, 3),
       Block(1, <<Num(54), Num(65), Num(75), Num(74)>>, Old, Cross, Num(6), 19, 2, 0),
       Block(2, <<Num(79), Num(60), Num(97)>>, Old, Star, Old, 13, 1, 3),
       Block(3, <<Num(74)>>, Old, Cross, Num(3), 17, 0, 1) >>

\* blocks that Monkey::new accepts
GoodBlocks ==
    { Block(0, <<Num(3), Num(5)>>, Old, Star, Old, 2, 1, 1),
      Block(1, <<Num(4)>>, Old, Cross, Num(3), 3, 0, 0),
      Block(1, <<Num(7), Num(2)>>, Old, Star, Num(3), 3, 2, 0),
      Block(0, <<Num(1)>>, Num(2), Cross, Old, 5, 1, 2),
      Block(2, <<Num(6)>>, Old, Cross, Old, 0, 0, 1),
      \* header index that is not the position; a seventh line
      Block(7, <<Num(5), Num(1)>>, Old, Star, Old, 2, 0, 1)
          \o <<Line("", << >>)>> }

\* blocks on which Monkey::new panics
BadBlocks ==
    { \* operator token "?"
      Block(0, <<Num(3)>>, Old, Junk, Num(2), 2, 1, 1),
      \* a starting item that is not a number
      Block(0, <<Num(3), Junk>>, Old, Star, Num(2), 2, 1, 1),
      \* no starting item
      Block(0, << >>, Old, Star, Num(2), 2, 1, 1),
      \* missing "If false" line
      SubSeq(Block(0, <<Num(3)>>, Old, Star, Num(2), 2, 1, 1), 1, 5) }

\* the empty segment that split("\n\n") yields between three newlines
EmptyBlock == << >>

Blocks == GoodBlocks \cup BadBlocks \cup {EmptyBlock}

Inputs == UNION { [1..n -> Blocks] : n \in 0..MaxBlocks }

NoThrow == [item |-> 0, to_monkey |-> 0]
NoLog == [round |-> -1, start |-> << >>, entries |-> << >>]
NoHist == [by |-> -1, old |-> 0, ref_old |-> 0, ref_item |-> 0, ref_to |-> -1]

InitWith(inp, rounds) ==
    /\ input = inp
    /\ n_rounds = rounds
    /\ pos = 0
    /\ monkeys = << >>
    /\ modulo = 1
    /\ round = 0
    /\ i = 0
    /\ pc = "constructing"
    /\ thrown = NoThrow
    /\ result = NoResult
    /\ hist = NoHist
    /\ ref = << >>
    /\ refOK = TRUE
    /\ log = NoLog
    /\ fifo = << >>

Init == \E inp \in Inputs : \E rounds \in 0..MaxRounds : InitWith(inp, rounds)

InitExample == \E rounds \in {20, 10000} : InitWith(ExampleInput, rounds)

----
\* Construction, lines 170-177

Panic == pc' = "panicked"

\* one step of the iterator split / filter / map(Monkey::new) / map(expect)
ParseBlock ==
    /\ pc = "constructing"
    /\ pos < Len(input)
    /\ pos' = pos + 1
    /\ IF input[pos + 1] = EmptyBlock
       THEN UNCHANGED <<monkeys, pc>>
       ELSE IF NewOk(input[pos + 1])
       THEN monkeys' = Append(monkeys, MonkeyNew(input[pos + 1])) /\ UNCHANGED pc
       ELSE Panic /\ UNCHANGED monkeys
    /\ UNCHANGED <<input, n_rounds, modulo, round, i, thrown, result, hist, ref, refOK, log, fifo>>

\* collect() is complete; let modulo
ComputeModulo ==
    /\ pc = "constructing"
    /\ pos = Len(input)
    /\ modulo' = Modulo(monkeys)
    /\ pc' = "simulating"
    /\ ref' = [k \in 1..Len(monkeys) |->
                 [items |-> monkeys[k].items, num_inspections |-> 0]]
    /\ fifo' = [k \in 1..Len(monkeys) |->
                  [items |-> monkeys[k].items, num_inspections |-> 0]]
    /\ UNCHANGED <<input, n_rounds, pos, monkeys, round, i, thrown, result, hist, refOK, log>>

----
\* Monkey::inspect_next and Monkey::catch

\* the oldest item removed instead of the inspected one
MutPop(items) == Tail(items)

Pop(items) == SubSeq(items, 1, Len(items) - 1)

\* the oldest item inspected, the newest removed
MutTop(items) == items[1]

Top(items) == items[Len(items)]

\* one item left behind
MutIsNone(items) == Len(items) <= 1

\* self.items.pop()? returns None
IsNone(items) == items = << >>

\* the two branches exchanged
MutTarget(m, new) ==
    IF new % m.test_mod = 0 THEN m.false_monkey_index ELSE m.true_monkey_index

\* the branch of lines 120-123
Target(m, new) ==
    IF new % m.test_mod = 0 THEN m.true_monkey_index ELSE m.false_monkey_index

\* the increment of num_inspections left out
MutInspectNext(m, mod) ==
    LET old == Top(m.items)
        new == ReducedOn(m.op, ExprOr(m.expr1, old), ExprOr(m.expr2, old), mod)
    IN  [ monkey |-> [m EXCEPT !.items = Pop(m.items)],
          thrown |-> [item |-> new, to_monkey |-> Target(m, new)] ]

\* inspect_next on a non-empty queue, for mod > 0: the monkey afterwards
\* and the ThrownItem
InspectNext(m, mod) ==
    LET old == Top(m.items)
        new == ReducedOn(m.op, ExprOr(m.expr1, old), ExprOr(m.expr2, old), mod)
    IN  [ monkey |-> [m EXCEPT !.items = Pop(m.items),
                               !.num_inspections = @ + 1],
          thrown |-> [item |-> new, to_monkey |-> Target(m, new)] ]

\* the caught item dropped
MutCatch(m, item) == m

\* the catcher counts the item as inspected
MutCatchCount(m, item) ==
    [m EXCEPT !.items = Append(@, item), !.num_inspections = @ + 1]

\* the caught item put at the other end of the queue
MutCatchFront(m, item) == [m EXCEPT !.items = <<item>> \o @]

Catch(m, item) == [m EXCEPT !.items = Append(@, item)]

----
\* The round loop, lines 179-194

\* the inclusive range 0..=n_rounds
MutRoundsLeft(r, n) == r <= n

\* for _ in 0..n_rounds has an iteration left
RoundsLeft(r, n) == r < n

\* plain indexing monkeys[to_monkey]: the acting agent can catch
MutRoutable(to, n) == to < n

\* lines 185-189 index left or right without panicking: left[to_monkey]
\* for to_monkey < i, right[to_monkey - (i + 1)] otherwise
Routable(to, n) == to < i \/ (to > i /\ to < n)

\* the same inspection in the reference run: no reduction
RefInspect ==
    LET m == monkeys[i + 1]
        r == ref[i + 1]
    IN  IF ~refOK \/ r.items = << >> \/ m.test_mod = 0
        THEN [ref |-> ref, ok |-> refOK, old |-> 0, item |-> 0, to |-> -1]
        ELSE LET old == Top(r.items)
                 new == OpOn(m.op, ExprOr(m.expr1, old), ExprOr(m.expr2, old))
                 to == Target(m, new)
                 r1 == [ref EXCEPT ![i + 1] =
                          [items |-> Pop(r.items),
                           num_inspections |-> r.num_inspections + 1]]
             IN  IF new > RefCap
                 THEN [ref |-> ref, ok |-> FALSE, old |-> old, item |-> 0, to |-> -1]
                 ELSE [ref |-> IF Routable(to, Len(ref))
                               THEN [r1 EXCEPT ![to + 1].items = Append(@, new)]
                               ELSE r1,
                       ok |-> TRUE, old |-> old, item |-> new, to |-> to]

\* the same inspection in the run that removes the oldest item first
FifoInspect ==
    LET m == monkeys[i + 1]
        f == fifo[i + 1]
    IN  IF f.items = << >>
        THEN fifo
        ELSE LET old == Head(f.items)
                 new == ReducedOn(m.op, ExprOr(m.expr1, old),
                                  ExprOr(m.expr2, old), modulo)
                 to == Target(m, new)
                 f1 == [fifo EXCEPT ![i + 1] =
                          [items |-> Tail(f.items),
                           num_inspections |-> f.num_inspections + 1]]
             IN  IF Routable(to, Len(fifo))
                 THEN [f1 EXCEPT ![to + 1].items = Append(@, new)]
                 ELSE f1

\* the throw recorded in the history of the current round
Logged(e) ==
    IF log.round = round
    THEN [log EXCEPT !.entries = Append(@, e)]
    ELSE [round |-> round,
          start |-> [k \in 1..Len(monkeys) |-> Len(monkeys[k].items)],
          entries |-> <<e>>]

\* one iteration of the while let: inspect_next, routing, catch
Inspect ==
    /\ pc = "simulating"
    /\ RoundsLeft(round, n_rounds)
    /\ i < Len(monkeys)
    /\ ~IsNone(monkeys[i + 1].items)
    /\ IF modulo = 0
       THEN \* line 114: remainder with a divisor of zero, after the pop
            /\ monkeys' = [monkeys EXCEPT ![i + 1].items = Pop(@)]
            /\ Panic
            /\ UNCHANGED <<thrown, hist, ref, refOK, log, fifo>>
       ELSE LET r == InspectNext(monkeys[i + 1], modulo)
                ms == [monkeys EXCEPT ![i + 1] = r.monkey]
                to == r.thrown.to_monkey
                rf == RefInspect
            IN  /\ thrown' = r.thrown
                /\ hist' = [by |-> i, old |-> Top(monkeys[i + 1].items),
                            ref_old |-> rf.old, ref_item |-> rf.item,
                            ref_to |-> rf.to]
                /\ ref' = rf.ref
                /\ refOK' = rf.ok
                /\ log' = Logged([by |-> i, to |-> to, item |-> r.thrown.item])
                /\ fifo' = FifoInspect
                /\ IF Routable(to, Len(monkeys))
                   THEN /\ monkeys' = [ms EXCEPT ![to + 1] = Catch(@, r.thrown.item)]
                        /\ UNCHANGED pc
                   ELSE /\ monkeys' = ms
                        /\ Panic
    /\ UNCHANGED <<input, n_rounds, pos, modulo, round, i, result>>

\* inspect_next returns None: the while let ends, next i
EndTurn ==
    /\ pc = "simulating"
    /\ RoundsLeft(round, n_rounds)
    /\ i < Len(monkeys)
    /\ IsNone(monkeys[i + 1].items)
    /\ i' = i + 1
    /\ UNCHANGED <<input, n_rounds, pos, monkeys, modulo, round, pc, thrown,
                   result, hist, ref, refOK, log, fifo>>

\* for i in 0..monkeys.len() is exhausted: next round
EndRound ==
    /\ pc = "simulating"
    /\ RoundsLeft(round, n_rounds)
    /\ i = Len(monkeys)
    /\ round' = round + 1
    /\ i' = 0
    /\ UNCHANGED <<input, n_rounds, pos, monkeys, modulo, pc, thrown, result,
                   hist, ref, refOK, log, fifo>>

\* lines 196-199
Aggregate ==
    /\ pc = "simulating"
    /\ ~RoundsLeft(round, n_rounds)
    /\ LET r == Business(monkeys)
       IN  IF r.ok
           THEN result' = r.val /\ pc' = "finished"
           ELSE Panic /\ UNCHANGED result
    /\ UNCHANGED <<input, n_rounds, pos, monkeys, modulo, round, i, thrown,
                   hist, ref, refOK, log, fifo>>

Next == ParseBlock \/ ComputeModulo \/ Inspect \/ EndTurn \/ EndRound \/ Aggregate

Spec == Init /\ [][Next]_vars

SpecExample == InitExample /\ [][Next]_vars

----
\* Properties

Counts == Inspections(monkeys)

\* the non-empty blocks, in order: one agent each
Agents == SelectSeq(input, LAMBDA b : b # EmptyBlock)

Labels == <<"Monkey", "Starting items", "Operation", "Test", "If true", "If false">>

HasJunk(line) == \E k \in 1..Len(line.args) : line.args[k] = Junk

\* a block that does not have the fixed shape in its five content lines
Malformed(b) ==
    \/ Len(b) < 6
    \/ \E k \in 2..6 : b[k].label # Labels[k] \/ HasJunk(b[k])
    \/ b[2].args = << >>

ValidInput == \A k \in 1..Len(Agents) : ~Malformed(Agents[k])

StartItems(b) == [k \in 1..Len(b[2].args) |-> b[2].args[k].n]

RECURSIVE SumLen(_)
SumLen(qs) == IF qs = << >> THEN 0 ELSE Len(Head(qs)) + SumLen(Tail(qs))

Queued == SumLen([k \in 1..Len(monkeys) |-> monkeys[k].items])
TotalStarting == SumLen([k \in 1..Len(Agents) |-> Agents[k][2].args])

Running == pc \in {"simulating", "finished"}

\* C1: whenever monkey_business returns, the result is the product of the
\* inspection counts of two different agents that no other agent exceeds.
C1_TopTwoProduct ==
    pc = "finished" =>
        \E a, b \in 1..Len(monkeys) :
            /\ a # b
            /\ result = Limbs(Counts[a] * Counts[b])
            /\ \A k \in 1..Len(monkeys) \ {a, b} :
                   Counts[k] <= Counts[a] /\ Counts[k] <= Counts[b]

C1_Witness ==
    /\ pc = "finished"
    /\ Len(monkeys) >= 3
    /\ \E a, b, c \in 1..Len(monkeys) :
           Counts[a] > Counts[b] /\ Counts[b] > Counts[c] /\ Counts[c] > 0

\* C2: the four-agent example run for 10000 rounds returns
\* 2713310158 = 27 * 10^8 + 1331 * 10^4 + 158.
C2_Example10000 ==
    (pc = "finished" /\ n_rounds = 10000) => result = <<158, 1331, 27>>

C2_Witness == pc = "finished" /\ n_rounds = 10000 /\ input = ExampleInput

\* C3 as stated: the four-agent example run for 20 rounds returns 10605.
C3_Original ==
    (pc = "finished" /\ n_rounds = 20) => result = <<605, 1>>

\* C3 amended: the four-agent example run for 20 rounds returns
\* 10197 = 103 * 99.
C3_Example20 ==
    (pc = "finished" /\ n_rounds = 20) => result = <<197, 1>>

C3_Witness == pc = "finished" /\ n_rounds = 20 /\ input = ExampleInput

\* C4: between two inspections, and after the last, the queues together
\* hold exactly as many items as the input listed.
C4_Conservation == Running => Queued = TotalStarting

C4_Witness ==
    /\ pc = "simulating"
    /\ round >= 1
    /\ hist.by >= 0
    /\ TotalStarting >= 3
    /\ \E k \in 1..Len(monkeys) :
           Len(monkeys[k].items) # Len(StartItems(Agents[k]))

\* C5: as long as the reference run on unbounded integers is tracked, every
\* inspection has the same divisibility outcome and destination in both
\* runs, and the two runs have the same inspection counts and queue lengths.
C5_ModulusTransparency ==
    (refOK /\ hist.by >= 0) =>
        /\ hist.ref_to = thrown.to_monkey
        /\ LET d == monkeys[hist.by + 1].test_mod
           IN  (hist.ref_item % d = 0) <=> (thrown.item % d = 0)
        /\ hist.ref_item % modulo = thrown.item
        /\ \A k \in 1..Len(monkeys) :
               /\ ref[k].num_inspections = monkeys[k].num_inspections
               /\ (pc # "panicked" => Len(ref[k].items) = Len(monkeys[k].items))

C5_Witness ==
    /\ refOK
    /\ hist.by >= 0
    /\ round >= 1
    /\ hist.ref_item > thrown.item
    /\ thrown.item % monkeys[hist.by + 1].test_mod = 0
    /\ pc = "simulating"

\* C6: the last inspection, by agent hist.by on item hist.old, threw the
\* reduced value transform(old) mod modulo, to the true-branch target when
\* that value is divisible by the agent's own divisor and to the
\* false-branch target otherwise, and the value is on top of that target's
\* queue.
C6_Divisibility ==
    hist.by >= 0 =>
        LET m == monkeys[hist.by + 1]
            reduced == OpOn(m.op, ExprOr(m.expr1, hist.old),
                            ExprOr(m.expr2, hist.old)) % modulo
        IN  /\ thrown.item = reduced
            /\ (reduced % m.test_mod = 0
                    => thrown.to_monkey = m.true_monkey_index)
            /\ (reduced % m.test_mod # 0
                    => thrown.to_monkey = m.false_monkey_index)
            /\ (pc # "panicked"
                    => /\ monkeys[thrown.to_monkey + 1].items # << >>
                       /\ Top(monkeys[thrown.to_monkey + 1].items) = reduced)

C6_Witness ==
    /\ hist.by >= 0
    /\ pc = "simulating"
    /\ LET m == monkeys[hist.by + 1]
       IN  /\ m.true_monkey_index # m.false_monkey_index
           /\ thrown.to_monkey = m.true_monkey_index
           /\ thrown.item > 0

\* an inspection by agent k (1-based) happens in this step: its queue
\* loses an item
Pops(k) == Len(monkeys'[k].items) < Len(monkeys[k].items)

\* C7: in every step no inspection count decreases, the count of the agent
\* that inspects grows by exactly one, and the counts of all others stay.
C7_Counters ==
    [][\A k \in 1..Len(monkeys) :
          LET d == monkeys'[k].num_inspections - monkeys[k].num_inspections
          IN  /\ d >= 0
              /\ (Pops(k) /\ modulo # 0 => d = 1)
              /\ (~Pops(k) => d = 0)]_vars

C7_Witness ==
    /\ pc = "simulating"
    /\ \E a, b \in 1..Len(monkeys) :
           a # b /\ Counts[a] >= 2 /\ Counts[b] >= 1

\* C8: with fewer than two agents in the input no score is ever returned,
\* and the call can only stop in a panic.
C8_FewAgentsFatal ==
    Len(Agents) < 2 =>
        /\ pc # "finished"
        /\ result = NoResult
        /\ (~ENABLED Next => pc = "panicked")

C8_Witness ==
    /\ Len(Agents) = 1
    /\ ValidInput
    /\ n_rounds = 0
    /\ pc = "panicked"

\* C9: with 0 rounds and a valid input of at least two agents the call does
\* not panic, no inspection happens, the queues keep the starting items,
\* every count is 0 and the score returned is 0.
C9_ZeroRounds ==
    (n_rounds = 0 /\ ValidInput /\ Len(Agents) >= 2) =>
        /\ pc # "panicked"
        /\ hist = NoHist
        /\ thrown = NoThrow
        /\ round = 0
        /\ (~ENABLED Next => pc = "finished")
        /\ (pc = "finished" => result = <<0>>)
        /\ (Running =>
               /\ Len(monkeys) = Len(Agents)
               /\ \A k \in 1..Len(monkeys) :
                      /\ monkeys[k].items = StartItems(Agents[k])
                      /\ monkeys[k].num_inspections = 0)

C9_Witness ==
    /\ n_rounds = 0
    /\ Len(monkeys) >= 2
    /\ pc = "finished"
    /\ result = <<0>>

\* C10: when some block of the input is malformed, no round is simulated,
\* no inspection happens, no score is returned, and the call can only stop
\* in a panic.
C10_ParseFailureFatal ==
    (\E k \in 1..Len(Agents) : Malformed(Agents[k])) =>
        /\ ~Running
        /\ result = NoResult
        /\ round = 0
        /\ hist = NoHist
        /\ \A k \in 1..Len(monkeys) : monkeys[k].num_inspections = 0
        /\ (~ENABLED Next => pc = "panicked")

C10_Witness ==
    /\ pc = "panicked"
    /\ Len(monkeys) >= 1
    /\ pos = Len(monkeys) + 1
    /\ Malformed(input[pos])

\* C11 as stated: whatever index in 0..count-1 the last inspection selected
\* as destination, the call has not panicked and the thrown value is on top
\* of that agent's queue.
C11_AnyDestination ==
    (hist.by >= 0 /\ thrown.to_monkey \in 0..(Len(monkeys) - 1)) =>
        /\ pc # "panicked"
        /\ monkeys[thrown.to_monkey + 1].items # << >>
        /\ Top(monkeys[thrown.to_monkey + 1].items) = thrown.item

\* the throws of the history that satisfy P, in order
Throws(P(_)) == SelectSeq(log.entries, P)
ItemsOf(es) == [a \in 1..Len(es) |-> es[a].item]

\* in the round of the history no agent after i has inspected, and the
\* agents inspected in list order
LogOrdered ==
    log.round = round =>
        \A a \in 1..Len(log.entries) :
            /\ log.entries[a].by <= i
            /\ (a > 1 => log.entries[a - 1].by <= log.entries[a].by)

\* C12: while simulating, i only moves from an agent with an empty queue to
\* the next agent, or from the end of the list to 0 with the next round;
\* only agent i inspects; and in the current round the inspections so far
\* were made in list order by agents up to i.
C12_TurnOrder ==
    [][pc = "simulating" =>
         /\ (i' # i =>
                \/ /\ i < Len(monkeys)
                   /\ monkeys[i + 1].items = << >>
                   /\ i' = i + 1
                   /\ round' = round
                   /\ monkeys' = monkeys
                \/ /\ i = Len(monkeys)
                   /\ i' = 0
                   /\ round' = round + 1
                   /\ monkeys' = monkeys)
         /\ (round' # round => i = Len(monkeys) /\ i' = 0)
         /\ (\A k \in 1..Len(monkeys) : Pops(k) => k = i + 1 /\ i' = i)
         /\ LogOrdered']_vars

C12_Witness ==
    /\ pc = "simulating"
    /\ round >= 1
    /\ Len(monkeys) >= 3
    /\ i = Len(monkeys)
    /\ log.round = round
    /\ \A k \in 0..2 : \E a \in 1..Len(log.entries) : log.entries[a].by = k

\* the agents whose turn in the round of the history is over
TurnsOver ==
    IF ~Running \/ log.round < 0 THEN {}
    ELSE IF log.round = round THEN 0..(i - 1)
    ELSE IF log.round = round - 1 THEN 0..(Len(monkeys) - 1)
    ELSE {}

\* C13: once agent k's turn of a round is over, k has inspected in that
\* round every item it held at the start of the round and every item thrown
\* to it by an earlier agent, and its queue holds exactly the items thrown to
\* it by later agents in that round, uninspected; this is still so when the
\* run has finished after that round.
C13_ForwardSameRound ==
    \A k \in TurnsOver :
        LET back(e) == e.to = k /\ e.by > k
            fwd(e) == e.to = k /\ e.by < k
            own(e) == e.by = k
        IN  /\ monkeys[k + 1].items = ItemsOf(Throws(back))
            /\ Len(Throws(own)) = log.start[k + 1] + Len(Throws(fwd))

C13_Witness ==
    /\ pc = "finished"
    /\ log.round = round - 1
    /\ \E a, b \in 1..Len(log.entries) :
           /\ log.entries[a].to > log.entries[a].by
           /\ log.entries[b].to < log.entries[b].by
           /\ monkeys[log.entries[b].to + 1].items # << >>

Last(q) == q[Len(q)]
AllButLast(q) == [a \in 1..(Len(q) - 1) |-> q[a]]

\* C14: every inspection takes the item at the end of the acting agent's
\* queue and leaves the rest in place, a caught item is put at that same
\* end, and the first inspection of the run takes the last listed starting
\* item of its agent.
C14_Lifo ==
    [][\A k \in 1..Len(monkeys) :
          (Pops(k) /\ modulo # 0) =>
              LET to == thrown'.to_monkey + 1
              IN  /\ hist'.old = Last(monkeys[k].items)
                  /\ monkeys'[k].items = AllButLast(monkeys[k].items)
                  /\ (hist = NoHist =>
                         hist'.old = Last(StartItems(Agents[k])))
                  /\ (pc' # "panicked" =>
                         /\ Last(monkeys'[to].items) = thrown'.item
                         /\ AllButLast(monkeys'[to].items) = monkeys[to].items)]_vars

C14_Witness ==
    /\ pc = "simulating"
    /\ hist.by >= 0
    /\ round >= 1
    /\ monkeys[hist.by + 1].items # << >>
    /\ monkeys[hist.by + 1].items[1] # hist.old
    /\ Len(monkeys[thrown.to_monkey + 1].items) >= 2

RECURSIVE MaxOf(_)
MaxOf(q) ==
    IF q = << >> THEN 0
    ELSE IF Head(q) >= MaxOf(Tail(q)) THEN Head(q) ELSE MaxOf(Tail(q))

LargestStart == MaxOf([k \in 1..Len(Agents) |-> MaxOf(StartItems(Agents[k]))])

\* C15: once the modulus is computed (and positive), every thrown value is
\* below it, every queued item is below it or is a starting item still in
\* its starting place, and the value given to a transform is at most
\* max(largest starting item, modulus - 1).
C15_BelowModulo ==
    (pc # "constructing" /\ modulo > 0) =>
        /\ (hist.by >= 0 =>
               /\ thrown.item < modulo
               /\ (hist.old <= LargestStart \/ hist.old <= modulo - 1))
        /\ \A k \in 1..Len(monkeys) : \A a \in 1..Len(monkeys[k].items) :
               \/ monkeys[k].items[a] < modulo
               \/ /\ a <= Len(StartItems(Agents[k]))
                  /\ monkeys[k].items[a] = StartItems(Agents[k])[a]

C15_Witness ==
    /\ pc = "simulating"
    /\ round >= 1
    /\ refOK
    /\ hist.by >= 0
    /\ hist.ref_item >= modulo
    /\ hist.old >= 1

\* the fields of agent k (1-based) that are fixed at construction
Static(m) ==
    <<m.expr1, m.op, m.expr2, m.test_mod, m.true_monkey_index,
      m.false_monkey_index>>

\* C16: no step changes an existing agent's transform, divisor or targets;
\* while simulating the input, the round count, the modulus and the number
\* of agents stay, and a step that changes an agent changes only the queue
\* and count of the acting agent i and the queue of the destination.
C16_Frame ==
    [][/\ Len(monkeys') >= Len(monkeys)
       /\ \A k \in 1..Len(monkeys) : Static(monkeys'[k]) = Static(monkeys[k])
       /\ (pc = "simulating" =>
              /\ modulo' = modulo
              /\ input' = input
              /\ n_rounds' = n_rounds
              /\ Len(monkeys') = Len(monkeys)
              /\ \A k \in 1..Len(monkeys) :
                     \/ monkeys'[k] = monkeys[k]
                     \/ k = i + 1
                     \/ /\ modulo # 0
                        /\ k = thrown'.to_monkey + 1
                        /\ monkeys'[k].num_inspections = monkeys[k].num_inspections)]_vars

C16_Witness ==
    /\ pc = "simulating"
    /\ Len(monkeys) >= 3
    /\ hist.by >= 0
    /\ \E k \in 0..(Len(monkeys) - 1) :
           /\ k # hist.by
           /\ k # thrown.to_monkey
           /\ monkeys[k + 1].items # << >>
           /\ monkeys[k + 1].num_inspections > 0

\* the items listed in the input, whether they parse or not
Listed == SumLen([k \in 1..Len(input) |->
                     IF Len(input[k]) >= 2 THEN input[k][2].args ELSE << >>])

\* what is left of the round loop: rounds, then turns, then items of the turn
LoopRank ==
    (IF round < n_rounds THEN n_rounds - round ELSE 0)
        * (Len(monkeys) + 1) * (Queued + 1)
    + (Len(monkeys) - i) * (Queued + 1)
    + (IF i < Len(monkeys) THEN Len(monkeys[i + 1].items) ELSE 0)
    + 1

\* a natural number that bounds the number of steps still to come
Measure ==
    IF pc = "constructing"
    THEN (n_rounds + 1) * (Len(input) + 1) * (Listed + 1) + 2
         + (Len(input) - pos)
    ELSE IF pc = "simulating" THEN LoopRank
    ELSE 0

\* C17: while an agent has its turn, its own queue never grows and every
\* inspection shortens it by exactly one; and every step of the call
\* strictly lowers a natural-valued measure, so every turn, every round and
\* the call end after finitely many steps.
C17_Terminates ==
    [][/\ ((pc = "simulating" /\ i < Len(monkeys) /\ i' = i) =>
              /\ Len(monkeys'[i + 1].items) <= Len(monkeys[i + 1].items)
              /\ (monkeys' # monkeys =>
                     Len(monkeys'[i + 1].items) = Len(monkeys[i + 1].items) - 1))
       /\ Measure' >= 0
       /\ Measure' < Measure]_vars

C17_Witness ==
    /\ pc = "finished"
    /\ round >= 2
    /\ \E k \in 1..Len(monkeys) :
           /\ monkeys[k].num_inspections >= 3
           /\ log.round = round - 1
           /\ log.start[k] >= 2

\* a state between two turns: the acting agent's queue is empty, or the
\* round or the run is over
TurnBoundary ==
    \/ pc = "finished"
    \/ /\ pc = "simulating"
       /\ (i = Len(monkeys) \/ monkeys[i + 1].items = << >>)

\* C18: at every turn boundary the run that removes the oldest item first
\* has the same inspection counts and, in every queue, the same values with
\* the same multiplicities as the program's run.
C18_OrderIndependent ==
    TurnBoundary =>
        \A k \in 1..Len(monkeys) :
            /\ fifo[k].num_inspections = monkeys[k].num_inspections
            /\ Sort(fifo[k].items) = Sort(monkeys[k].items)

C18_Witness ==
    /\ TurnBoundary
    /\ round >= 1
    /\ \E k \in 1..Len(monkeys) :
           /\ fifo[k].items # monkeys[k].items
           /\ monkeys[k].num_inspections >= 2

====
